---- MODULE Spec2Model ----
(***************************************************************************)
(* The PostgreSQL repositories of the things service: thingRepository     *)
(* (things/postgres/things.go) and channelRepository, over the three       *)
(* tables things, channels and connections of the things service's         *)
(* database.  The repositories hold no state of their own: the             *)
(* state is the content of the tables.  Every handler is one SQL statement *)
(* followed by the translation of the driver's error, except HasThing,     *)
(* which runs two statements.  The message reader's table (messages) is    *)
(* modelled beside them.                                                   *)
(***************************************************************************)
EXTENDS Integers, FiniteSets, Sequences, TLC

VARIABLES things, channels, connections, messages, last, pc, call, ret, seen

vars == <<things, channels, connections, messages, last, pc, call, ret, seen>>
\* The tables of the things service's database.
db == <<things, channels, connections>>
\* The callers of the concurrent specification.
procs == <<pc, call, ret, seen>>

(***************************************************************************)
(* Input domains.                                                          *)
(***************************************************************************)
Owners == {"o1", "o2"}
ThingIDs == {"t1", "t2"}
ChanIDs == {"c1"}
\* A string that is not in UUID format.
BadID == "not-a-uuid"
NumKeys == 2
Keys == 1 .. NumKeys
\* A key longer than the key column admits.
LongKey == NumKeys + 1
Names == {"n1"}
\* A Go map: nil or not, and its entries as a set of <<key, value>> pairs.
NilMeta == [null |-> TRUE, kv |-> {}]
Metas == {NilMeta}
\* The values a metadata map holds: Go strings, ints and float64s.
GoString(s) == [t |-> "string", v |-> s]
GoInt(n) == [t |-> "int", v |-> n]
GoFloat(n) == [t |-> "float64", v |-> n]
\* A map that is empty but not nil, and the map of the entries kv.
EmptyMeta == [null |-> FALSE, kv |-> {}]
MetaOf(kv) == [null |-> FALSE, kv |-> kv]
NoKey == 0

(***************************************************************************)
(* Error values.  things.Err* are the service's error kinds; the pq codes  *)
(* stand for a *pq.Error with that code name, returned to the caller       *)
(* unchanged; ErrNoRows is database/sql's sql.ErrNoRows.                   *)
(***************************************************************************)
Nil == "nil"
ErrMalformedEntity == "ErrMalformedEntity"
ErrConflict == "ErrConflict"
ErrNotFound == "ErrNotFound"
ErrUnauthorizedAccess == "ErrUnauthorizedAccess"
ErrNoRows == "sql.ErrNoRows"
errDuplicate == "unique_violation"
errFK == "foreign_key_violation"
errInvalid == "invalid_text_representation"
errTruncation == "string_data_right_truncation"
Ok == "ok"

(***************************************************************************)
(* The storage engine: the schema's constraints and what each statement    *)
(* does.  A statement yields Ok or the code name of the engine's error.    *)
(***************************************************************************)
ValidUUID(id) == id # BadID
KeyFits(key) == key <= NumKeys

ThingRow(id, owner, name, key, metadata) ==
    [id |-> id, owner |-> owner, name |-> name, key |-> key, metadata |-> metadata]
ChannelRow(id, owner, name, metadata) ==
    [id |-> id, owner |-> owner, name |-> name, metadata |-> metadata]
ConnRow(chan, thing, owner) ==
    [channel_id |-> chan, channel_owner |-> owner,
     thing_id |-> thing, thing_owner |-> owner]

ThingExists(id) == \E r \in things : r.id = id
ChannelExists(id) == \E r \in channels : r.id = id
ConnExists(chan, thing) ==
    \E r \in connections : r.channel_id = chan /\ r.thing_id = thing

\* INSERT INTO things: id is the primary key, key is UNIQUE.
InsertThingCode(id, key) ==
    IF ~ValidUUID(id) THEN errInvalid
    ELSE IF ~KeyFits(key) THEN errTruncation
    ELSE IF \E r \in things : r.id = id \/ r.key = key THEN errDuplicate
    ELSE Ok

\* INSERT INTO channels: id is the primary key.
InsertChannelCode(id) ==
    IF ~ValidUUID(id) THEN errInvalid
    ELSE IF ChannelExists(id) THEN errDuplicate
    ELSE Ok

\* UPDATE things SET name, metadata WHERE owner AND id.
UpdateThingCode(id) == IF ValidUUID(id) THEN Ok ELSE errInvalid

\* UPDATE things SET key = .. : key stays UNIQUE.
UpdateKeyCode(owner, id, key) ==
    IF ~ValidUUID(id) THEN errInvalid
    ELSE IF ~KeyFits(key) THEN errTruncation
    ELSE IF /\ \E r \in things : r.id = id /\ r.owner = owner
            /\ \E r \in things : r.id # id /\ r.key = key
         THEN errDuplicate
    ELSE Ok

\* INSERT INTO connections: (channel_id, thing_id) is the primary key,
\* channel_id references channels.id and thing_id references things.id.
InsertConnectionCode(chan, thing) ==
    IF ~ValidUUID(chan) \/ ~ValidUUID(thing) THEN errInvalid
    ELSE IF ConnExists(chan, thing) THEN errDuplicate
    ELSE IF ~ChannelExists(chan) \/ ~ThingExists(thing) THEN errFK
    ELSE Ok

\* UPDATE channels SET name, metadata WHERE owner AND id.
UpdateChannelCode(id) == IF ValidUUID(id) THEN Ok ELSE errInvalid

\* DELETE FROM connections WHERE channel_id AND thing_id AND the owners,
\* and SELECT EXISTS (.. WHERE channel_id AND thing_id).
ConnQueryCode(chan, thing) ==
    IF ValidUUID(chan) /\ ValidUUID(thing) THEN Ok ELSE errInvalid

\* DELETE FROM things / channels WHERE id AND owner.
DeleteCode(id) == IF ValidUUID(id) THEN Ok ELSE errInvalid

\* ON DELETE CASCADE from both foreign keys of connections.
Cascade(ths, chs) ==
    {r \in connections : /\ \E t \in ths : t.id = r.thing_id
                         /\ \E c \in chs : c.id = r.channel_id}

(***************************************************************************)
(* A call and its result.  last is the record of the last call completed   *)
(* in the sequential specification: what was called, the engine's answer   *)
(* to its statement (code), the error and value returned, whether the call *)
(* before it was the same call (again, with that call's error), and how    *)
(* many connection rows the call removed (dropped).                        *)
(***************************************************************************)
CallOf(op, owner, chan, thing, key) ==
    [op |-> op, owner |-> owner, chan |-> chan, thing |-> thing, key |-> key]

Result(code, err, out) == [code |-> code, err |-> err, out |-> out]

SameCall(c) ==
    /\ last.op = c.op /\ last.owner = c.owner /\ last.chan = c.chan
    /\ last.thing = c.thing /\ last.key = c.key

Completed(c, r) ==
    last' = [op |-> c.op, owner |-> c.owner, chan |-> c.chan, thing |-> c.thing,
             key |-> c.key,
             code |-> r.code, err |-> r.err, out |-> r.out,
             again |-> SameCall(c),
             prevErr |-> IF SameCall(c) THEN last.err ELSE "",
             dropped |-> Cardinality(connections \ connections')]

\* The entity a Save or Update of things was given: its name and metadata.
\* The record of such a call holds it too (arg).
Entity(name, metadata) == [name |-> name, metadata |-> metadata]

CompletedWith(c, r, e) ==
    last' = [op |-> c.op, owner |-> c.owner, chan |-> c.chan, thing |-> c.thing,
             key |-> c.key, arg |-> e,
             code |-> r.code, err |-> r.err, out |-> r.out,
             again |-> SameCall(c),
             prevErr |-> IF SameCall(c) THEN last.err ELSE "",
             dropped |-> Cardinality(connections \ connections')]

NoCall == CallOf("none", "", "", "", NoKey)
NoResult == Result(Ok, Nil, "")

NoLast ==
    [op |-> "none", owner |-> "", chan |-> "", thing |-> "", key |-> NoKey,
     code |-> Ok, err |-> Nil, out |-> "", again |-> FALSE, prevErr |-> "",
     dropped |-> 0]

(***************************************************************************)
(* thingRepository.  For each handler: its statement's effect on the       *)
(* tables (..Stmt), what it returns (..Ret), and the call as one step.     *)
(***************************************************************************)
\* json.Marshal of a metadata value: a Go number of either type becomes a
\* JSON number.
JSONOf(v) ==
    IF v.t = "string" THEN [t |-> "string", v |-> v.v]
    ELSE [t |-> "number", v |-> v.v]

\* json.Unmarshal of a JSON value into an interface{}: a number becomes a
\* float64.
GoOf(j) ==
    IF j.t = "number" THEN GoFloat(j.v) ELSE GoString(j.v)

\* json.Marshal of a map's entries and json.Unmarshal of a JSON object.
Marshal(kv) == {<<e[1], JSONOf(e[2])>> : e \in kv}
Unmarshal(doc) == {<<e[1], GoOf(e[2])>> : e \in doc}

\* A thing's metadata is stored as a JSON document: an empty or nil map as
\* the document {}, any other map as the object of its entries.
toDBThing(id, owner, name, key, metadata) ==
    ThingRow(id, owner, name, key,
             IF Cardinality(metadata.kv) > 0 THEN Marshal(metadata.kv) ELSE {})

Thing(id, owner, name, key, metadata) ==
    [id |-> id, owner |-> owner, name |-> name, key |-> key, metadata |-> metadata]

\* toThing with the stored document's entries taken as they are.
toThingNoUnmarshal(row) ==
    Thing(row.id, row.owner, row.name, row.key, MetaOf(row.metadata))

\* json.Unmarshal of the stored document into a map: never a nil map.
toThing(row) ==
    Thing(row.id, row.owner, row.name, row.key, MetaOf(Unmarshal(row.metadata)))

(***************************************************************************)
(* Listing queries.  A name is a sequence of characters; a page holds the  *)
(* items of the window and the total the count query gave.                 *)
(***************************************************************************)
\* Identifiers in ascending order, as ORDER BY id sorts them.
IdOrder == <<"c1", "c2", "t1", "t2">>

OrderById(rows) ==
    LET ids == SelectSeq(IdOrder, LAMBDA id : \E r \in rows : r.id = id) IN
    [i \in 1 .. Len(ids) |-> CHOOSE r \in rows : r.id = ids[i]]

\* LIMIT :limit OFFSET :offset over the ordered rows.
LimitOffset(rows, limit, offset) ==
    SubSeq(rows, offset + 1,
           IF offset + limit < Len(rows) THEN offset + limit ELSE Len(rows))

Page(items, total, offset, limit) ==
    [items |-> items, total |-> total, offset |-> offset, limit |-> limit]
\* things.ThingsPage{} and things.ChannelsPage{}.
EmptyPage == Page(<<>>, 0, 0, 0)

\* strings.ToLower in the handler and LOWER() in the query.
LowerChar(c) == IF c = "A" THEN "a" ELSE IF c = "B" THEN "b" ELSE c
ToLower(name) == [i \in 1 .. Len(name) |-> LowerChar(name[i])]

\* s LIKE pat: % stands for any sequence of characters, _ for any one.
RECURSIVE Like(_, _)
Like(s, pat) ==
    IF pat = <<>> THEN s = <<>>
    ELSE IF Head(pat) = "%"
         THEN Like(s, Tail(pat)) \/ (s # <<>> /\ Like(Tail(s), pat))
    ELSE IF s = <<>> THEN FALSE
    ELSE (Head(pat) = "_" \/ Head(pat) = Head(s)) /\ Like(Tail(s), Tail(pat))

\* getNameQuery: whether the query gets the name condition, and the
\* pattern bound to :name.
getNameQuery(name) ==
    IF ToLower(name) # <<>>
    THEN [nq |-> TRUE, name |-> <<"%">> \o ToLower(name) \o <<"%">>]
    ELSE [nq |-> FALSE, name |-> <<>>]

\* AND LOWER(name) LIKE :name, when the query has it.
NameMatches(row, q) == q.nq => Like(ToLower(row.name), q.name)

\* getMetadataQuery that never adds the condition.
getMetadataQueryNone(m) == [mq |-> FALSE, mb |-> {}]

\* getMetadataQuery: whether the query gets the metadata condition, and the
\* document bound to :metadata.
getMetadataQuery(m) ==
    IF Cardinality(m.kv) > 0
    THEN [mq |-> TRUE, mb |-> Marshal(m.kv)]
    ELSE [mq |-> FALSE, mb |-> {}]

\* A metadata column's value: a JSON object or NULL.
JSONDoc(kv) == [null |-> FALSE, kv |-> kv]
SQLNull == [null |-> TRUE, kv |-> {}]

\* doc @> f: every entry of f is an entry of doc; NULL contains nothing.
Contains(doc, f) == ~doc.null /\ f \subseteq doc.kv

\* The result of a handler that returns before its first statement.
NoStmt == "no statement"

\* Save without the duplicate case: a unique violation is passed on.
SaveErrNoConflict(code) ==
    IF code = Ok THEN Nil
    ELSE IF code \in {errInvalid, errTruncation} THEN ErrMalformedEntity
    ELSE code

\* The switch on the driver's error code in Save.
SaveErr(code) ==
    IF code = Ok THEN Nil
    ELSE IF code \in {errInvalid, errTruncation} THEN ErrMalformedEntity
    ELSE IF code = errDuplicate THEN ErrConflict
    ELSE code

ThingSaveStmt(id, owner, name, key, metadata) ==
    /\ things' = IF InsertThingCode(id, key) = Ok
                 THEN things \cup {toDBThing(id, owner, name, key, metadata)}
                 ELSE things
    /\ UNCHANGED <<channels, connections>>

ThingSaveRet(id, key) ==
    LET code == InsertThingCode(id, key) IN
    Result(code, SaveErr(code), IF code = Ok THEN id ELSE "")

ThingSave(id, owner, name, key, metadata) ==
    /\ ThingSaveStmt(id, owner, name, key, metadata)
    /\ CompletedWith(CallOf("ThingSave", owner, "", id, key), ThingSaveRet(id, key),
                     Entity(name, metadata))
    /\ UNCHANGED <<messages, procs>>

\* The rows an UPDATE or DELETE of things matches: WHERE owner AND id.
ThingRows(owner, id) == {r \in things : r.owner = owner /\ r.id = id}

\* Update without the test of the affected rows.
UpdateErrNoCount(code, cnt) ==
    IF code \in {errInvalid, errTruncation} THEN ErrMalformedEntity
    ELSE IF code # Ok THEN code
    ELSE Nil

\* The switch on the driver's error code in Update, then the affected rows.
UpdateErr(code, cnt) ==
    IF code \in {errInvalid, errTruncation} THEN ErrMalformedEntity
    ELSE IF code # Ok THEN code
    ELSE IF cnt = 0 THEN ErrNotFound
    ELSE Nil

\* Update's statement with WHERE id alone.
ThingUpdateStmtAnyOwner(id, owner, name, metadata) ==
    /\ things' = IF UpdateThingCode(id) = Ok
                 THEN {IF r.id = id THEN toDBThing(r.id, r.owner, name, r.key, metadata)
                       ELSE r : r \in things}
                 ELSE things
    /\ UNCHANGED <<channels, connections>>

ThingUpdateStmt(id, owner, name, metadata) ==
    /\ things' = IF UpdateThingCode(id) = Ok
                 THEN (things \ ThingRows(owner, id)) \cup
                      {toDBThing(r.id, r.owner, name, r.key, metadata) :
                         r \in ThingRows(owner, id)}
                 ELSE things
    /\ UNCHANGED <<channels, connections>>

ThingUpdateRet(id, owner) ==
    Result(UpdateThingCode(id),
           UpdateErr(UpdateThingCode(id), Cardinality(ThingRows(owner, id))), "")

ThingUpdate(id, owner, name, metadata) ==
    /\ ThingUpdateStmt(id, owner, name, metadata)
    /\ CompletedWith(CallOf("ThingUpdate", owner, "", id, NoKey),
                     ThingUpdateRet(id, owner), Entity(name, metadata))
    /\ UNCHANGED <<messages, procs>>

\* UpdateKey with Update's switch: no duplicate case.
UpdateKeyErrNoConflict(code, cnt) ==
    IF code = errInvalid THEN ErrMalformedEntity
    ELSE IF code # Ok THEN code
    ELSE IF cnt = 0 THEN ErrNotFound
    ELSE Nil

\* The switch on the driver's error code in UpdateKey, then the affected rows.
UpdateKeyErr(code, cnt) ==
    IF code = errInvalid THEN ErrMalformedEntity
    ELSE IF code = errDuplicate THEN ErrConflict
    ELSE IF code # Ok THEN code
    ELSE IF cnt = 0 THEN ErrNotFound
    ELSE Nil

UpdateKeyStmt(owner, id, key) ==
    /\ things' = IF UpdateKeyCode(owner, id, key) = Ok
                 THEN (things \ ThingRows(owner, id)) \cup
                      {[r EXCEPT !.key = key] : r \in ThingRows(owner, id)}
                 ELSE things
    /\ UNCHANGED <<channels, connections>>

UpdateKeyRet(owner, id, key) ==
    Result(UpdateKeyCode(owner, id, key),
           UpdateKeyErr(UpdateKeyCode(owner, id, key),
                        Cardinality(ThingRows(owner, id))), "")

UpdateKey(owner, id, key) ==
    /\ UpdateKeyStmt(owner, id, key)
    /\ Completed(CallOf("UpdateKey", owner, "", id, key), UpdateKeyRet(owner, id, key))
    /\ UNCHANGED <<messages, procs>>

\* SELECT id FROM things WHERE key = $1: the ids of the rows it yields.
KeyLookup(key) == {r.id : r \in {x \in things : x.key = key}}

\* RetrieveByKey's translation of the scan's error.
RetrieveByKeyErr(code) == IF code = ErrNoRows THEN ErrNotFound ELSE code

\* The results RetrieveByKey can give: the scan takes the first row.
RetrieveByKeyRets(key) ==
    IF KeyLookup(key) = {}
    THEN {Result(ErrNoRows, RetrieveByKeyErr(ErrNoRows), "")}
    ELSE {Result(Ok, Nil, id) : id \in KeyLookup(key)}

RetrieveByKey(key) ==
    /\ UNCHANGED <<db, messages, procs>>
    /\ \E r \in RetrieveByKeyRets(key) :
          Completed(CallOf("RetrieveByKey", "", "", "", key), r)

\* RetrieveByID's translation of the scan's error.
RetrieveByIDErr(code) ==
    IF code = ErrNoRows \/ code = errInvalid THEN ErrNotFound ELSE code

\* SELECT name, key, metadata FROM things WHERE id AND owner, scanned into a
\* dbThing and converted.
ThingRetrieveByIDRet(owner, id) ==
    IF ~ValidUUID(id) THEN Result(errInvalid, RetrieveByIDErr(errInvalid), "")
    ELSE IF ThingRows(owner, id) = {}
    THEN Result(ErrNoRows, RetrieveByIDErr(ErrNoRows), "")
    ELSE LET r == CHOOSE x \in ThingRows(owner, id) : TRUE IN
         Result(Ok, Nil, toThing(ThingRow(id, owner, r.name, r.key, r.metadata)))

ThingRetrieveByID(owner, id) ==
    /\ UNCHANGED <<db, messages, procs>>
    /\ Completed(CallOf("ThingRetrieveByID", owner, "", id, NoKey),
                 ThingRetrieveByIDRet(owner, id))

\* The rows of RetrieveAll's page query: WHERE owner, the metadata condition
\* and the name condition.
ThingPageRows(owner, nq, mq) ==
    {r \in things : /\ r.owner = owner
                    /\ mq.mq => Contains(JSONDoc(r.metadata), mq.mb)
                    /\ NameMatches(r, nq)}

\* The rows of RetrieveAll's count query: WHERE owner and the name
\* condition.
ThingCountRows(owner, nq) ==
    {r \in things : r.owner = owner /\ NameMatches(r, nq)}

\* The things of a result set, each scanned into a dbThing of the owner
\* asked for and converted.
ThingItems(rows, owner) ==
    [i \in 1 .. Len(rows) |->
       toThing(ThingRow(rows[i].id, owner, rows[i].name, rows[i].key,
                        rows[i].metadata))]

ThingRetrieveAllRet(owner, offset, limit, name, metadata) ==
    LET nq == getNameQuery(name)
        mq == getMetadataQuery(metadata)
        rows == LimitOffset(OrderById(ThingPageRows(owner, nq, mq)), limit, offset)
        total == Cardinality(ThingCountRows(owner, nq))
    IN Result(Ok, Nil, Page(ThingItems(rows, owner), total, offset, limit))

\* The things joined with the connections of a channel: WHERE th.owner AND
\* co.channel_id.
ThingsOfChannel(owner, channel) ==
    {r \in things : /\ r.owner = owner
                    /\ \E co \in connections :
                          co.thing_id = r.id /\ co.channel_id = channel}

\* RetrieveByChannel without the check of the identifier's format.
ThingRetrieveByChannelRetNoCheck(owner, channel, offset, limit) ==
    IF ~ValidUUID(channel) THEN Result(errInvalid, errInvalid, EmptyPage)
    ELSE LET rows == LimitOffset(OrderById(ThingsOfChannel(owner, channel)),
                                 limit, offset)
         IN Result(Ok, Nil, Page(ThingItems(rows, owner),
                                 Cardinality(ThingsOfChannel(owner, channel)),
                                 offset, limit))

ThingRetrieveByChannelRet(owner, channel, offset, limit) ==
    IF ~ValidUUID(channel) THEN Result(NoStmt, ErrNotFound, EmptyPage)
    ELSE LET rows == LimitOffset(OrderById(ThingsOfChannel(owner, channel)),
                                 limit, offset)
         IN Result(Ok, Nil, Page(ThingItems(rows, owner),
                                 Cardinality(ThingsOfChannel(owner, channel)),
                                 offset, limit))

\* DELETE FROM things WHERE id AND owner; the statement's error is dropped.
ThingRemoveStmt(owner, id) ==
    LET left == IF DeleteCode(id) = Ok THEN things \ ThingRows(owner, id) ELSE things IN
    /\ things' = left
    /\ connections' = Cascade(left, channels)
    /\ UNCHANGED channels

\* Remove that returns the statement's error.
ThingRemoveRetRaw(id) ==
    Result(DeleteCode(id), IF DeleteCode(id) = Ok THEN Nil ELSE DeleteCode(id), "")

ThingRemoveRet(id) == Result(DeleteCode(id), Nil, "")

ThingRemove(owner, id) ==
    /\ ThingRemoveStmt(owner, id)
    /\ Completed(CallOf("ThingRemove", owner, "", id, NoKey), ThingRemoveRet(id))
    /\ UNCHANGED <<messages, procs>>

(***************************************************************************)
(* channelRepository                                                       *)
(***************************************************************************)
\* dbMetadata.Value: an empty or nil map is stored as NULL.
toDBChannel(id, owner, name, metadata) ==
    ChannelRow(id, owner, name,
               IF Cardinality(metadata.kv) = 0 THEN SQLNull
               ELSE JSONDoc(Marshal(metadata.kv)))

Channel(id, owner, name, metadata) ==
    [id |-> id, owner |-> owner, name |-> name, metadata |-> metadata]

\* dbMetadata.Scan and toChannel: NULL leaves the map nil, a document is
\* unmarshalled into it.
toChannel(row) ==
    Channel(row.id, row.owner, row.name,
            IF row.metadata.null THEN NilMeta
            ELSE MetaOf(Unmarshal(row.metadata.kv)))

\* The switch on the driver's error code in the channels' Save.
ChannelSaveErr(code) ==
    IF code = Ok THEN Nil
    ELSE IF code \in {errInvalid, errTruncation} THEN ErrMalformedEntity
    ELSE code

ChannelSaveStmt(id, owner, name, metadata) ==
    /\ channels' = IF InsertChannelCode(id) = Ok
                   THEN channels \cup {toDBChannel(id, owner, name, metadata)}
                   ELSE channels
    /\ UNCHANGED <<things, connections>>

ChannelSaveRet(id) ==
    LET code == InsertChannelCode(id) IN
    Result(code, ChannelSaveErr(code), IF code = Ok THEN id ELSE "")

ChannelSave(id, owner, name, metadata) ==
    /\ ChannelSaveStmt(id, owner, name, metadata)
    /\ Completed(CallOf("ChannelSave", owner, id, "", NoKey), ChannelSaveRet(id))
    /\ UNCHANGED <<messages, procs>>

ChannelRows(owner, id) == {r \in channels : r.owner = owner /\ r.id = id}

\* The switch on the driver's error code in the channels' Update.
ChannelUpdateErr(code, cnt) ==
    IF code \in {errInvalid, errTruncation} THEN ErrMalformedEntity
    ELSE IF code # Ok THEN code
    ELSE IF cnt = 0 THEN ErrNotFound
    ELSE Nil

ChannelUpdateStmt(id, owner, name, metadata) ==
    /\ channels' = IF UpdateChannelCode(id) = Ok
                   THEN (channels \ ChannelRows(owner, id)) \cup
                        {toDBChannel(r.id, r.owner, name, metadata) :
                           r \in ChannelRows(owner, id)}
                   ELSE channels
    /\ UNCHANGED <<things, connections>>

ChannelUpdateRet(id, owner) ==
    Result(UpdateChannelCode(id),
           ChannelUpdateErr(UpdateChannelCode(id), Cardinality(ChannelRows(owner, id))), "")

ChannelUpdate(id, owner, name, metadata) ==
    /\ ChannelUpdateStmt(id, owner, name, metadata)
    /\ Completed(CallOf("ChannelUpdate", owner, id, "", NoKey),
                 ChannelUpdateRet(id, owner))
    /\ UNCHANGED <<messages, procs>>

\* DELETE FROM channels WHERE id AND owner; the statement's error is dropped.
ChannelRemoveStmt(owner, id) ==
    LET left == IF DeleteCode(id) = Ok THEN channels \ ChannelRows(owner, id)
                ELSE channels IN
    /\ channels' = left
    /\ connections' = Cascade(things, left)
    /\ UNCHANGED things

ChannelRemoveRet(id) == Result(DeleteCode(id), Nil, "")

ChannelRemove(owner, id) ==
    /\ ChannelRemoveStmt(owner, id)
    /\ Completed(CallOf("ChannelRemove", owner, id, "", NoKey), ChannelRemoveRet(id))
    /\ UNCHANGED <<messages, procs>>

\* The rows of RetrieveAll's page query: WHERE owner, the metadata condition
\* and the name condition.
ChannelPageRows(owner, nq, mq) ==
    {r \in channels : /\ r.owner = owner
                      /\ mq.mq => Contains(r.metadata, mq.mb)
                      /\ NameMatches(r, nq)}

\* The rows of RetrieveAll's count query: WHERE owner and the name
\* condition.
ChannelCountRows(owner, nq) ==
    {r \in channels : r.owner = owner /\ NameMatches(r, nq)}

\* The channels of a result set, each scanned into a dbChannel of the owner
\* asked for and converted.
ChannelItems(rows, owner) ==
    [i \in 1 .. Len(rows) |->
       toChannel(ChannelRow(rows[i].id, owner, rows[i].name, rows[i].metadata))]

ChannelRetrieveAllRet(owner, offset, limit, name, metadata) ==
    LET nq == getNameQuery(name)
        mq == getMetadataQuery(metadata)
        rows == LimitOffset(OrderById(ChannelPageRows(owner, nq, mq)), limit, offset)
        total == Cardinality(ChannelCountRows(owner, nq))
    IN Result(Ok, Nil, Page(ChannelItems(rows, owner), total, offset, limit))

\* The channels joined with the connections of a thing: WHERE ch.owner AND
\* co.thing_id.
ChannelsOfThing(owner, thing) ==
    {r \in channels : /\ r.owner = owner
                      /\ \E co \in connections :
                            co.channel_id = r.id /\ co.thing_id = thing}

ChannelRetrieveByThingRet(owner, thing, offset, limit) ==
    IF ~ValidUUID(thing) THEN Result(NoStmt, ErrNotFound, EmptyPage)
    ELSE LET rows == LimitOffset(OrderById(ChannelsOfThing(owner, thing)),
                                 limit, offset)
         IN Result(Ok, Nil, Page(ChannelItems(rows, owner),
                                 Cardinality(ChannelsOfThing(owner, thing)),
                                 offset, limit))

\* Connect without the duplicate case: a second insert's error is passed on.
ConnectErrNotIdempotent(code) ==
    IF code = Ok THEN Nil
    ELSE IF code = errFK THEN ErrNotFound
    ELSE code

\* Connect without the foreign-key case: the engine's error is passed on.
ConnectErrRawFK(code) ==
    IF code = Ok THEN Nil
    ELSE IF code = errDuplicate THEN Nil
    ELSE code

\* The translation of the driver's error in Connect.
ConnectErr(code) ==
    IF code = Ok THEN Nil
    ELSE IF code = errFK THEN ErrNotFound
    ELSE IF code = errDuplicate THEN Nil
    ELSE code

ConnectStmt(owner, chanID, thingID) ==
    /\ connections' = IF InsertConnectionCode(chanID, thingID) = Ok
                      THEN connections \cup {ConnRow(chanID, thingID, owner)}
                      ELSE connections
    /\ UNCHANGED <<things, channels>>

ConnectRet(chanID, thingID) ==
    Result(InsertConnectionCode(chanID, thingID),
           ConnectErr(InsertConnectionCode(chanID, thingID)), "")

Connect(owner, chanID, thingID) ==
    /\ ConnectStmt(owner, chanID, thingID)
    /\ Completed(CallOf("Connect", owner, chanID, thingID, NoKey),
                 ConnectRet(chanID, thingID))
    /\ UNCHANGED <<messages, procs>>

\* The rows Disconnect's DELETE matches: the pair, and owner on both sides.
DisconnectRows(owner, chanID, thingID) ==
    {r \in connections : /\ r.channel_id = chanID /\ r.channel_owner = owner
                         /\ r.thing_id = thingID /\ r.thing_owner = owner}

\* Disconnect without the affected-rows check, as Remove is.
DisconnectErrNoCount(code, cnt) == IF code # Ok THEN code ELSE Nil

\* Disconnect's error: the statement's, or NotFound for no affected row.
DisconnectErr(code, cnt) ==
    IF code # Ok THEN code
    ELSE IF cnt = 0 THEN ErrNotFound
    ELSE Nil

DisconnectStmt(owner, chanID, thingID) ==
    /\ connections' = IF ConnQueryCode(chanID, thingID) = Ok
                      THEN connections \ DisconnectRows(owner, chanID, thingID)
                      ELSE connections
    /\ UNCHANGED <<things, channels>>

DisconnectRet(owner, chanID, thingID) ==
    Result(ConnQueryCode(chanID, thingID),
           DisconnectErr(ConnQueryCode(chanID, thingID),
                         Cardinality(DisconnectRows(owner, chanID, thingID))), "")

Disconnect(owner, chanID, thingID) ==
    /\ DisconnectStmt(owner, chanID, thingID)
    /\ Completed(CallOf("Disconnect", owner, chanID, thingID, NoKey),
                 DisconnectRet(owner, chanID, thingID))
    /\ UNCHANGED <<messages, procs>>

\* hasThing that does not look at the query's answer.
hasThingNoCheck(chanID, thingID) ==
    IF ConnQueryCode(chanID, thingID) # Ok THEN ConnQueryCode(chanID, thingID)
    ELSE Nil

\* hasThing with the test of the query's answer inverted.
hasThingInverted(chanID, thingID) ==
    IF ConnQueryCode(chanID, thingID) # Ok THEN ConnQueryCode(chanID, thingID)
    ELSE IF ConnExists(chanID, thingID) THEN ErrUnauthorizedAccess
    ELSE Nil

\* hasThing: the error of the EXISTS query, or UnauthorizedAccess when it
\* answers false.
hasThing(chanID, thingID) ==
    IF ConnQueryCode(chanID, thingID) # Ok THEN ConnQueryCode(chanID, thingID)
    ELSE IF ~ConnExists(chanID, thingID) THEN ErrUnauthorizedAccess
    ELSE Nil

HasThingByIDRet(chanID, thingID) ==
    Result(ConnQueryCode(chanID, thingID), hasThing(chanID, thingID), "")

HasThingByID(chanID, thingID) ==
    /\ UNCHANGED <<db, messages, procs>>
    /\ Completed(CallOf("HasThingByID", "", chanID, thingID, NoKey),
                 HasThingByIDRet(chanID, thingID))

\* HasThing's first statement: the scan's error is returned as it is.
HasThingLookupErr(code) == code

\* HasThing's second step, for the thing id its first statement gave.
HasThingCheckRet(chanID, thingID) ==
    Result(ConnQueryCode(chanID, thingID), hasThing(chanID, thingID),
           IF hasThing(chanID, thingID) = Nil THEN thingID ELSE "")

\* The results of HasThing when nothing runs between its two statements.
HasThingRets(chanID, key) ==
    IF KeyLookup(key) = {}
    THEN {Result(ErrNoRows, HasThingLookupErr(ErrNoRows), "")}
    ELSE {HasThingCheckRet(chanID, id) : id \in KeyLookup(key)}

HasThing(chanID, key) ==
    /\ UNCHANGED <<db, messages, procs>>
    /\ \E r \in HasThingRets(chanID, key) :
          Completed(CallOf("HasThing", "", chanID, "", key), r)

(***************************************************************************)
(* The sequential specification: calls run one at a time, each to its end, *)
(* from the empty store.                                                   *)
(***************************************************************************)
Procs == {"p1", "p2"}

ProcsIdle ==
    /\ pc = [p \in Procs |-> "idle"]
    /\ call = [p \in Procs |-> NoCall]
    /\ ret = [p \in Procs |-> NoResult]
    /\ seen = [p \in Procs |-> {}]

Init ==
    /\ things = {}
    /\ channels = {}
    /\ connections = {}
    /\ messages = {}
    /\ last = NoLast
    /\ ProcsIdle

ThingArgIDs == ThingIDs \cup {BadID}
ChanArgIDs == ChanIDs \cup {BadID}
KeyArgs == Keys \cup {LongKey}

Next ==
    \/ \E id \in ThingArgIDs, o \in Owners, n \in Names, k \in KeyArgs, m \in Metas :
          ThingSave(id, o, n, k, m)
    \/ \E id \in ThingArgIDs, o \in Owners, n \in Names, m \in Metas :
          ThingUpdate(id, o, n, m)
    \/ \E id \in ThingArgIDs, o \in Owners, k \in KeyArgs : UpdateKey(o, id, k)
    \/ \E k \in KeyArgs : RetrieveByKey(k)
    \/ \E id \in ThingArgIDs, o \in Owners : ThingRemove(o, id)
    \/ \E id \in ChanArgIDs, o \in Owners, n \in Names, m \in Metas :
          ChannelSave(id, o, n, m)
    \/ \E id \in ChanArgIDs, o \in Owners, n \in Names, m \in Metas :
          ChannelUpdate(id, o, n, m)
    \/ \E id \in ChanArgIDs, o \in Owners : ChannelRemove(o, id)
    \/ \E c \in ChanArgIDs, t \in ThingArgIDs, o \in Owners : Connect(o, c, t)
    \/ \E c \in ChanArgIDs, t \in ThingArgIDs, o \in Owners : Disconnect(o, c, t)
    \/ \E c \in ChanArgIDs, t \in ThingArgIDs : HasThingByID(c, t)
    \/ \E c \in ChanArgIDs, k \in KeyArgs : HasThing(c, k)

Spec == Init /\ [][Next]_vars

(***************************************************************************)
(* The concurrent specification: two callers, each call a step that        *)
(* invokes it, a step for each of its statements, and a step that returns. *)
(* The store starts populated: two things, a channel, and the first thing  *)
(* connected or not.                                                       *)
(***************************************************************************)
ConcStore ==
    /\ things = {toDBThing("t1", "o1", "n1", 1, NilMeta),
                 toDBThing("t2", "o1", "n1", 2, NilMeta)}
    /\ channels = {toDBChannel("c1", "o1", "n1", NilMeta)}
    /\ connections \in SUBSET {ConnRow("c1", "t1", "o1")}

InitConc ==
    /\ ConcStore
    /\ messages = {}
    /\ last = NoLast
    /\ ProcsIdle

ConcCalls ==
    {CallOf("Connect", o, c, t, NoKey) : o \in Owners, c \in ChanIDs, t \in ThingIDs}
    \cup {CallOf("Disconnect", o, c, t, NoKey) :
            o \in Owners, c \in ChanIDs, t \in ThingIDs}
    \cup {CallOf("ThingRemove", o, "", t, NoKey) : o \in Owners, t \in ThingIDs}
    \cup {CallOf("ChannelRemove", o, c, "", NoKey) : o \in Owners, c \in ChanIDs}
    \cup {CallOf("UpdateKey", o, "", t, k) : o \in Owners, t \in ThingIDs, k \in Keys}
    \cup {CallOf("ThingUpdate", o, "", t, NoKey) : o \in Owners, t \in ThingIDs}
    \cup {CallOf("HasThing", "", c, "", k) : c \in ChanIDs, k \in Keys}

\* The things that hold the key of the HasThing call c and are connected to
\* its channel in the store after the step.
HeldNext(c) ==
    {t \in ThingIDs : /\ c.op = "HasThing"
                      /\ \E r \in things' : r.id = t /\ r.key = c.key
                      /\ \E r \in connections' :
                            r.channel_id = c.chan /\ r.thing_id = t}

\* seen[p] collects, over the states of the store from the call of p's
\* HasThing to its return, the things for which the call's answer was true.
Observe ==
    seen' = [p \in Procs |->
               IF pc'[p] = "idle" THEN {}
               ELSE IF pc[p] = "returned" THEN seen[p]
               ELSE seen[p] \cup HeldNext(call'[p])]

Invoke(p) ==
    /\ pc[p] = "idle"
    /\ \E c \in ConcCalls : call' = [call EXCEPT ![p] = c]
    /\ pc' = [pc EXCEPT ![p] = "called"]
    /\ UNCHANGED <<db, messages, last, ret>>
    /\ Observe

Called(p, op) == pc[p] = "called" /\ call[p].op = op

Returns(p, r) ==
    /\ ret' = [ret EXCEPT ![p] = r]
    /\ pc' = [pc EXCEPT ![p] = "returned"]
    /\ UNCHANGED <<call, last, messages>>
    /\ Observe

ExecConnect(p) ==
    /\ Called(p, "Connect")
    /\ ConnectStmt(call[p].owner, call[p].chan, call[p].thing)
    /\ Returns(p, ConnectRet(call[p].chan, call[p].thing))

ExecDisconnect(p) ==
    /\ Called(p, "Disconnect")
    /\ DisconnectStmt(call[p].owner, call[p].chan, call[p].thing)
    /\ Returns(p, DisconnectRet(call[p].owner, call[p].chan, call[p].thing))

ExecThingRemove(p) ==
    /\ Called(p, "ThingRemove")
    /\ ThingRemoveStmt(call[p].owner, call[p].thing)
    /\ Returns(p, ThingRemoveRet(call[p].thing))

ExecChannelRemove(p) ==
    /\ Called(p, "ChannelRemove")
    /\ ChannelRemoveStmt(call[p].owner, call[p].chan)
    /\ Returns(p, ChannelRemoveRet(call[p].chan))

ExecUpdateKey(p) ==
    /\ Called(p, "UpdateKey")
    /\ UpdateKeyStmt(call[p].owner, call[p].thing, call[p].key)
    /\ Returns(p, UpdateKeyRet(call[p].owner, call[p].thing, call[p].key))

ExecThingUpdate(p) ==
    /\ Called(p, "ThingUpdate")
    /\ \E n \in Names, m \in Metas :
          ThingUpdateStmt(call[p].thing, call[p].owner, n, m)
    /\ Returns(p, ThingUpdateRet(call[p].thing, call[p].owner))

\* HasThing's first statement: the key lookup.  A miss returns; a hit keeps
\* the thing id and goes on to the second statement.
ExecHasThingLookup(p) ==
    /\ Called(p, "HasThing")
    /\ UNCHANGED db
    /\ IF KeyLookup(call[p].key) = {}
       THEN Returns(p, Result(ErrNoRows, HasThingLookupErr(ErrNoRows), ""))
       ELSE /\ \E id \in KeyLookup(call[p].key) :
                 ret' = [ret EXCEPT ![p] = Result(Ok, Nil, id)]
            /\ pc' = [pc EXCEPT ![p] = "lookedup"]
            /\ UNCHANGED <<call, last, messages>>
            /\ Observe

\* HasThing's second statement: hasThing for the id the lookup gave.
ExecHasThingCheck(p) ==
    /\ pc[p] = "lookedup"
    /\ UNCHANGED db
    /\ Returns(p, HasThingCheckRet(call[p].chan, ret[p].out))

Return(p) ==
    /\ pc[p] = "returned"
    /\ pc' = [pc EXCEPT ![p] = "idle"]
    /\ call' = [call EXCEPT ![p] = NoCall]
    /\ ret' = [ret EXCEPT ![p] = NoResult]
    /\ UNCHANGED <<db, messages, last>>
    /\ Observe

NextConc ==
    \E p \in Procs :
       \/ Invoke(p)
       \/ ExecConnect(p)
       \/ ExecDisconnect(p)
       \/ ExecThingRemove(p)
       \/ ExecChannelRemove(p)
       \/ ExecUpdateKey(p)
       \/ ExecThingUpdate(p)
       \/ ExecHasThingLookup(p)
       \/ ExecHasThingCheck(p)
       \/ Return(p)

SpecConc == InitConc /\ [][NextConc]_vars

(***************************************************************************)
(* The things specification: the handlers of thingRepository that take or  *)
(* give a whole thing, with two names and with metadata that is nil,       *)
(* empty, or holds a number and a string.                                  *)
(***************************************************************************)
ThingNames == {"n1", "n2"}
ThingMetas ==
    {NilMeta, EmptyMeta, MetaOf({<<"a", GoInt(1)>>, <<"b", GoString("x")>>})}

NextThings ==
    \/ \E id \in ThingIDs, o \in Owners, n \in ThingNames, k \in Keys, m \in ThingMetas :
          ThingSave(id, o, n, k, m)
    \/ \E id \in ThingArgIDs, o \in Owners : ThingRetrieveByID(o, id)
    \/ \E id \in ThingArgIDs, o \in Owners : ThingRemove(o, id)

SpecThings == Init /\ [][NextThings]_vars

(***************************************************************************)
(* The update specification: Update and UpdateKey, by both owners, over a  *)
(* store of saved things, a channel, and connections of its owner's        *)
(* things.                                                                 *)
(***************************************************************************)
\* The key a thing is saved with: the things' keys differ.
KeyOfThing == [t \in ThingIDs |-> IF t = "t1" THEN 1 ELSE NumKeys]

SavedThings ==
    [present : BOOLEAN, owner : Owners, name : ThingNames, metadata : ThingMetas]

InitUpdate ==
    /\ things \in
         {{toDBThing(id, f[id].owner, f[id].name, KeyOfThing[id], f[id].metadata) :
             id \in {i \in ThingIDs : f[i].present}} : f \in [ThingIDs -> SavedThings]}
    /\ channels = {toDBChannel("c1", "o1", "n1", NilMeta)}
    /\ connections \in
         SUBSET {ConnRow("c1", r.id, "o1") : r \in {x \in things : x.owner = "o1"}}
    /\ messages = {}
    /\ last = NoLast
    /\ ProcsIdle

NextUpdate ==
    \/ \E id \in ThingArgIDs, o \in Owners, n \in ThingNames, m \in ThingMetas :
          ThingUpdate(id, o, n, m)
    \/ \E id \in ThingArgIDs, o \in Owners, k \in KeyArgs : UpdateKey(o, id, k)

SpecUpdate == InitUpdate /\ [][NextUpdate]_vars

(***************************************************************************)
(* The listing specification: one caller runs the listing queries, one     *)
(* after the other, over a store of saved things, or of saved channels, or *)
(* of two things connected or not to a channel of their owner.             *)
(***************************************************************************)
MaxOffset == 1
MaxLimit == 2
Offsets == 0 .. MaxOffset
Limits == 0 .. MaxLimit
ListChanIDs == {"c1", "c2"}
ListNames == {<<"A", "b">>, <<"b">>}
NameFilters == {<<>>, <<"a">>, <<"B">>, <<"_", "b">>}
ListMetas == {NilMeta, MetaOf({<<"a", GoInt(1)>>, <<"b", GoString("x")>>})}
MetaFilters ==
    {NilMeta, EmptyMeta, MetaOf({<<"a", GoInt(1)>>}), MetaOf({<<"a", GoInt(2)>>})}

\* What a table holds for an identifier: nothing, or a saved entity.
Saved == [present : BOOLEAN, owner : Owners, name : ListNames, metadata : ListMetas]

ThingTables ==
    {{toDBThing(id, f[id].owner, f[id].name, KeyOfThing[id], f[id].metadata) :
        id \in {i \in ThingIDs : f[i].present}} : f \in [ThingIDs -> Saved]}
ChannelTables ==
    {{toDBChannel(id, f[id].owner, f[id].name, f[id].metadata) :
        id \in {i \in ListChanIDs : f[i].present}} : f \in [ListChanIDs -> Saved]}

ConnectedStore ==
    /\ things = {toDBThing(t, "o1", <<"b">>, KeyOfThing[t], NilMeta) : t \in ThingIDs}
    /\ channels = {toDBChannel("c1", "o1", <<"b">>, NilMeta)}
    /\ connections \in SUBSET {ConnRow("c1", t, "o1") : t \in ThingIDs}

InitList ==
    /\ \/ things \in ThingTables /\ channels = {} /\ connections = {}
       \/ things = {} /\ channels \in ChannelTables /\ connections = {}
       \/ ConnectedStore
    /\ messages = {}
    /\ last = NoLast
    /\ ProcsIdle

ListCall(op, owner, id, offset, limit, name, metadata) ==
    [op |-> op, owner |-> owner, id |-> id, offset |-> offset, limit |-> limit,
     name |-> name, metadata |-> metadata]

ListCalls ==
    {ListCall(op, o, "", off, lim, n, m) :
       op \in {"ThingRetrieveAll", "ChannelRetrieveAll"}, o \in Owners,
       off \in Offsets, lim \in Limits, n \in NameFilters, m \in MetaFilters}
    \cup {ListCall("ThingRetrieveByChannel", o, c, off, lim, <<>>, NilMeta) :
            o \in Owners, c \in ChanArgIDs, off \in Offsets, lim \in Limits}
    \cup {ListCall("ChannelRetrieveByThing", o, t, off, lim, <<>>, NilMeta) :
            o \in Owners, t \in ThingArgIDs, off \in Offsets, lim \in Limits}

InvokeList(p) ==
    /\ pc[p] = "idle"
    /\ \E c \in ListCalls : call' = [call EXCEPT ![p] = c]
    /\ pc' = [pc EXCEPT ![p] = "called"]
    /\ UNCHANGED <<db, messages, last, ret>>
    /\ Observe

ExecThingRetrieveAll(p) ==
    /\ Called(p, "ThingRetrieveAll")
    /\ UNCHANGED db
    /\ Returns(p, ThingRetrieveAllRet(call[p].owner, call[p].offset, call[p].limit,
                                      call[p].name, call[p].metadata))

ExecChannelRetrieveAll(p) ==
    /\ Called(p, "ChannelRetrieveAll")
    /\ UNCHANGED db
    /\ Returns(p, ChannelRetrieveAllRet(call[p].owner, call[p].offset, call[p].limit,
                                        call[p].name, call[p].metadata))

ExecThingRetrieveByChannel(p) ==
    /\ Called(p, "ThingRetrieveByChannel")
    /\ UNCHANGED db
    /\ Returns(p, ThingRetrieveByChannelRet(call[p].owner, call[p].id,
                                            call[p].offset, call[p].limit))

ExecChannelRetrieveByThing(p) ==
    /\ Called(p, "ChannelRetrieveByThing")
    /\ UNCHANGED db
    /\ Returns(p, ChannelRetrieveByThingRet(call[p].owner, call[p].id,
                                            call[p].offset, call[p].limit))

NextList ==
    \/ InvokeList("p1")
    \/ ExecThingRetrieveAll("p1")
    \/ ExecChannelRetrieveAll("p1")
    \/ ExecThingRetrieveByChannel("p1")
    \/ ExecChannelRetrieveByThing("p1")
    \/ Return("p1")

SpecList == InitList /\ [][NextList]_vars

\* The listing call that has returned to the caller, if one has.
Listed(op) == pc["p1"] = "returned" /\ call["p1"].op = op

(***************************************************************************)
(* The message reader and the writer that fills its table.  A message is   *)
(* a row of the messages table: its channel and the attributes the filters *)
(* look at.  The reader's rows come in an order of the engine's choosing.  *)
(* One caller reads, one call after the other; the writer saves between    *)
(* the reader's calls.                                                     *)
(***************************************************************************)
MaxMessages == 3
MsgChannels == {"c1", "c2"}
Subtopics == {"", "subtopic"}
Message(channel, subtopic, publisher, protocol) ==
    [channel |-> channel, subtopic |-> subtopic, publisher |-> publisher,
     protocol |-> protocol]
Filters ==
    {{}, {<<"subtopic", "subtopic">>}, {<<"subtopic", "not-present">>},
     {<<"publisher", "p1">>, <<"protocol", "mqtt">>}, {<<"format", "senml">>}}

\* The writer's Save: one more row, numbered in the order of arrival.
MessageSaveStmt(msg) ==
    messages' = messages \cup {[id |-> Cardinality(messages) + 1, msg |-> msg]}

MessageSave(msg) ==
    /\ \A p \in Procs : pc[p] = "idle"
    /\ Cardinality(messages) < MaxMessages
    /\ MessageSaveStmt(msg)
    /\ last' = [op |-> "MessageSave", err |-> Nil]
    /\ UNCHANGED <<db, procs>>

\* The conjunction of the recognized filters; other keys are ignored.
MatchesFilters(msg, query) ==
    \A f \in query :
       /\ f[1] = "subtopic" => msg.subtopic = f[2]
       /\ f[1] = "publisher" => msg.publisher = f[2]
       /\ f[1] = "protocol" => msg.protocol = f[2]

MessageRows(chanID, query) ==
    {r \in messages : r.msg.channel = chanID /\ MatchesFilters(r.msg, query)}

\* The orders in which the engine may give a set of rows.
RECURSIVE Orderings(_)
Orderings(rows) ==
    IF rows = {} THEN {<<>>}
    ELSE UNION {{<<r>> \o s : s \in Orderings(rows \ {r})} : r \in rows}

MessageItems(rows) == [i \in 1 .. Len(rows) |-> rows[i].msg]

\* ReadAll whose Total counts the rows of the page.
ReadAllRetsPageTotal(chanID, offset, limit, query) ==
    {Result(Ok, Nil, Page(MessageItems(LimitOffset(s, limit, offset)),
                          Len(LimitOffset(s, limit, offset)), offset, limit)) :
       s \in Orderings(MessageRows(chanID, query))}

\* The results ReadAll can give: the window of the matching rows, and the
\* count of all of them.
ReadAllRets(chanID, offset, limit, query) ==
    {Result(Ok, Nil, Page(MessageItems(LimitOffset(s, limit, offset)),
                          Cardinality(MessageRows(chanID, query)), offset, limit)) :
       s \in Orderings(MessageRows(chanID, query))}

ReadCall(chanID, offset, limit, query) ==
    [op |-> "ReadAll", chan |-> chanID, offset |-> offset, limit |-> limit,
     query |-> query]

InvokeRead(p) ==
    /\ pc[p] = "idle"
    /\ \E c \in MsgChannels, off \in Offsets, lim \in Limits, q \in Filters :
          call' = [call EXCEPT ![p] = ReadCall(c, off, lim, q)]
    /\ pc' = [pc EXCEPT ![p] = "called"]
    /\ UNCHANGED <<db, messages, last, ret>>
    /\ Observe

ReadAll(p) ==
    /\ Called(p, "ReadAll")
    /\ UNCHANGED db
    /\ \E r \in ReadAllRets(call[p].chan, call[p].offset, call[p].limit,
                            call[p].query) : Returns(p, r)

NextMessages ==
    \/ \E c \in MsgChannels, st \in Subtopics :
          MessageSave(Message(c, st, "p1", "mqtt"))
    \/ InvokeRead("p1")
    \/ ReadAll("p1")
    \/ Return("p1")

SpecMessages == Init /\ [][NextMessages]_vars

(***************************************************************************)
(* Properties.  Identifiers are UUID strings; a string that is not one     *)
(* (BadID) makes the engine reject the statement, and the handler passes   *)
(* that error on: the properties about things and channels speak of        *)
(* identifiers.                                                            *)
(***************************************************************************)
PairRows(chan, thing) ==
    {r \in connections : r.channel_id = chan /\ r.thing_id = thing}

\* C1: Connect is idempotent.  When Connect(owner, c, t) has been called
\* twice in a row and channel c and thing t exist, neither call returned an
\* error and exactly one connection row for (c, t) exists.
C1_ConnectIdempotent ==
    (/\ last.op = "Connect" /\ last.again
     /\ ChannelExists(last.chan) /\ ThingExists(last.thing))
    => /\ last.prevErr = Nil
       /\ last.err = Nil
       /\ Cardinality(PairRows(last.chan, last.thing)) = 1

\* The second of two Connect calls in a row has met the row of the first.
C1_Witness ==
    /\ last.op = "Connect" /\ last.again
    /\ ChannelExists(last.chan) /\ ThingExists(last.thing)
    /\ last.code = errDuplicate /\ last.err = Nil /\ last.prevErr = Nil

BothReturned(op) ==
    \A p \in Procs : pc[p] = "returned" /\ call[p].op = op

\* C2: when two concurrent Connect calls for the same (channel, thing) pair
\* whose endpoints exist have both returned, both returned success and
\* exactly one connection row for the pair exists, whatever the order of
\* their statements and whichever owners they gave.
C2_ConcurrentConnect ==
    \A p, q \in Procs :
       (/\ p # q /\ BothReturned("Connect")
        /\ call[p].chan = call[q].chan /\ call[p].thing = call[q].thing
        /\ ChannelExists(call[p].chan) /\ ThingExists(call[p].thing))
       => /\ ret[p].err = Nil /\ ret[q].err = Nil
          /\ Cardinality(PairRows(call[p].chan, call[p].thing)) = 1

\* Both calls were in flight together, one inserted the row and the other
\* met it.
C2_Witness ==
    /\ BothReturned("Connect")
    /\ call["p1"].chan = call["p2"].chan /\ call["p1"].thing = call["p2"].thing
    /\ ret["p1"].code = Ok /\ ret["p2"].code = errDuplicate
    /\ ret["p1"].err = Nil /\ ret["p2"].err = Nil

\* C3: every connection row refers to a channel and a thing that exist, and
\* both are owned by the owner recorded in the row, the owner given to the
\* Connect that created it.
C3_ConnectionsOwned ==
    \A r \in connections :
       /\ r.channel_owner = r.thing_owner
       /\ \E c \in channels : c.id = r.channel_id /\ c.owner = r.channel_owner
       /\ \E t \in things : t.id = r.thing_id /\ t.owner = r.thing_owner

\* C4: a Connect whose channel or thing does not exist returns NotFound and
\* creates no connection row.
C4_ConnectMissingEndpoint ==
    [][(/\ last'.op = "Connect"
        /\ ValidUUID(last'.chan) /\ ValidUUID(last'.thing)
        /\ ~ChannelExists(last'.chan) \/ ~ThingExists(last'.thing))
       => /\ last'.err = ErrNotFound
          /\ connections' = connections]_vars

\* A Connect to a thing that exists and a channel that does not.
C4_Witness ==
    /\ last.op = "Connect" /\ last.code = errFK /\ last.err = ErrNotFound
    /\ ThingExists(last.thing) /\ ~ChannelExists(last.chan)
    /\ PairRows(last.chan, last.thing) = {}

\* C5: Disconnect(owner, c, t) returns NotFound and changes nothing when no
\* connection row for (c, t) with that owner exists, so also right after a
\* successful Disconnect of the same pair; otherwise it succeeds and
\* removes exactly that row.
C5_DisconnectNotIdempotent ==
    /\ []((last.op = "Disconnect" /\ last.again /\ last.prevErr = Nil)
          => last.err = ErrNotFound)
    /\ [][(/\ last'.op = "Disconnect"
           /\ ValidUUID(last'.chan) /\ ValidUUID(last'.thing))
          => LET row == ConnRow(last'.chan, last'.thing, last'.owner) IN
             /\ UNCHANGED <<things, channels>>
             /\ IF row \in connections
                THEN last'.err = Nil /\ connections' = connections \ {row}
                ELSE last'.err = ErrNotFound /\ connections' = connections]_vars

\* A second Disconnect right after a successful one.
C5_Witness ==
    /\ last.op = "Disconnect" /\ last.again /\ last.prevErr = Nil
    /\ last.err = ErrNotFound
    /\ connections # {}

\* C6: deleting an endpoint cascades.  No connection row refers to a thing
\* or a channel that does not exist; once a Remove has deleted a thing (a
\* channel), no row refers to it and hasThing answers UnauthorizedAccess for
\* every pair with it, as HasThingByID does for any pair with a missing
\* endpoint.
C6_RemoveCascades ==
    /\ [](\A r \in connections :
             ThingExists(r.thing_id) /\ ChannelExists(r.channel_id))
    /\ []((/\ last.op = "HasThingByID"
           /\ ValidUUID(last.chan) /\ ValidUUID(last.thing)
           /\ ~ThingExists(last.thing) \/ ~ChannelExists(last.chan))
          => last.err = ErrUnauthorizedAccess)
    /\ [][\A t \in ThingIDs :
            (/\ last'.op = "ThingRemove" /\ last'.thing = t
             /\ ThingExists(t) /\ ~ThingExists(t)')
            => /\ \A r \in connections' : r.thing_id # t
               /\ \A c \in ChanIDs : hasThing(c, t)' = ErrUnauthorizedAccess]_vars
    /\ [][\A c \in ChanIDs :
            (/\ last'.op = "ChannelRemove" /\ last'.chan = c
             /\ ChannelExists(c) /\ ~ChannelExists(c)')
            => /\ \A r \in connections' : r.channel_id # c
               /\ \A t \in ThingIDs : hasThing(c, t)' = ErrUnauthorizedAccess]_vars

\* A Remove has deleted a connected thing, and its rows went with it.
C6_Witness ==
    /\ last.op = "ThingRemove" /\ last.dropped > 0
    /\ ~ThingExists(last.thing) /\ ChannelExists("c1")
    /\ hasThing("c1", last.thing) = ErrUnauthorizedAccess

\* C7: HasThingByID(c, t) returns no error exactly when a connection row for
\* (c, t) exists, whoever owns it, and UnauthorizedAccess otherwise; a row
\* for (c, t) appears only by a successful Connect of the pair and
\* disappears only by a successful Disconnect of the pair or a Remove of c
\* or of t.
C7_HasThingByID ==
    /\ []((/\ last.op = "HasThingByID"
           /\ ValidUUID(last.chan) /\ ValidUUID(last.thing))
          => last.err = IF PairRows(last.chan, last.thing) # {}
                        THEN Nil ELSE ErrUnauthorizedAccess)
    /\ []((last.op = "Connect" /\ last.err = Nil)
          => PairRows(last.chan, last.thing) # {})
    /\ []((last.op = "Disconnect" /\ last.err = Nil)
          => ConnRow(last.chan, last.thing, last.owner) \notin connections)
    /\ [][\A c \in ChanIDs, t \in ThingIDs :
            /\ (PairRows(c, t) = {} /\ PairRows(c, t)' # {})
               => /\ last'.op = "Connect" /\ last'.err = Nil
                  /\ last'.chan = c /\ last'.thing = t
            /\ (PairRows(c, t) # {} /\ PairRows(c, t)' = {})
               => \/ /\ last'.op = "Disconnect" /\ last'.err = Nil
                     /\ last'.chan = c /\ last'.thing = t
                  \/ last'.op = "ThingRemove" /\ last'.thing = t
                  \/ last'.op = "ChannelRemove" /\ last'.chan = c]_vars

\* HasThingByID has approved a pair whose row records an owner that is not
\* the thing's.
C7_Witness ==
    /\ last.op = "HasThingByID" /\ last.err = Nil
    /\ \E r \in PairRows(last.chan, last.thing), t \in things :
          t.id = r.thing_id /\ t.owner # r.thing_owner

\* C8: HasThing(c, key) returns the id of the thing holding the key when
\* that thing is connected to c, UnauthorizedAccess when it is not, and
\* NotFound, as RetrieveByKey does, when no thing holds the key.
C8_HasThing ==
    (last.op = "HasThing" /\ ValidUUID(last.chan))
    => IF KeyLookup(last.key) = {}
       THEN last.err = ErrNotFound
       ELSE \E t \in KeyLookup(last.key) :
              IF PairRows(last.chan, t) # {}
              THEN last.err = Nil /\ last.out = t
              ELSE last.err = ErrUnauthorizedAccess

\* C9 as claimed: UpdateKey(owner, id, k) of a thing id, where k is already
\* the key of another thing, returns Conflict and changes no key.
C9_UpdateKeyConflict ==
    [][(/\ last'.op = "UpdateKey"
        /\ ThingExists(last'.thing)
        /\ \E r \in things : r.id # last'.thing /\ r.key = last'.key)
       => /\ last'.err = ErrConflict
          /\ things' = things]_vars

\* C9 as amended: UpdateKey(owner, id, k), where k is already the key of
\* another thing, returns Conflict when id is a thing of that owner, and
\* NotFound when it is a thing of another owner or no thing; no key changes
\* either way.
C9_UpdateKeyConflictOwned ==
    [][(/\ last'.op = "UpdateKey"
        /\ ValidUUID(last'.thing)
        /\ \E r \in things : r.id # last'.thing /\ r.key = last'.key)
       => /\ last'.err = IF \E r \in things : /\ r.id = last'.thing
                                              /\ r.owner = last'.owner
                         THEN ErrConflict ELSE ErrNotFound
          /\ things' = things]_vars

\* UpdateKey of an owner's thing to the key another thing holds.
C9_Witness ==
    /\ last.op = "UpdateKey" /\ last.err = ErrConflict
    /\ \E a, b \in things : /\ a.id = last.thing /\ a.owner = last.owner
                            /\ a.key # last.key
                            /\ b.id # a.id /\ b.key = last.key

\* C10: access keys are unique.  No two things hold the same key, a key
\* resolves to at most one thing id, which RetrieveByKey returns, and a
\* Save whose key another thing holds returns Conflict and adds no thing.
C10_KeysUnique ==
    /\ [](\A a, b \in things : a.key = b.key => a = b)
    /\ [](\A k \in KeyArgs : Cardinality(KeyLookup(k)) <= 1)
    /\ []((last.op = "RetrieveByKey" /\ last.err = Nil)
          => KeyLookup(last.key) = {last.out})
    /\ [][(/\ last'.op = "ThingSave"
           /\ ValidUUID(last'.thing)
           /\ \E r \in things : r.id # last'.thing /\ r.key = last'.key)
          => /\ last'.err = ErrConflict
             /\ things' = things]_vars

\* A Save of a new thing id with the key of an existing thing.
C10_Witness ==
    /\ last.op = "ThingSave" /\ last.err = ErrConflict
    /\ ValidUUID(last.thing) /\ ~ThingExists(last.thing)
    /\ \E r \in things : r.key = last.key

\* The thing given to the Save that last is the record of.
SavedThing == Thing(last.thing, last.owner, last.arg.name, last.key, last.arg.metadata)

\* A RetrieveByID of the thing just saved, by the owner it was saved for.
RetrievesSaved ==
    /\ last.op = "ThingSave" /\ last.err = Nil
    /\ last'.op = "ThingRetrieveByID"
    /\ last'.owner = last.owner /\ last'.thing = last.thing

\* Two metadata values that are the same JSON value: the same string, or
\* numbers of the same value whatever their Go type.
JSONEqual(a, b) ==
    IF a.t = "string" \/ b.t = "string" THEN a = b ELSE a.v = b.v

\* Two maps with the same keys and JSON-equal values.
SameEntries(m1, m2) ==
    /\ {e[1] : e \in m1.kv} = {e[1] : e \in m2.kv}
    /\ \A e1 \in m1.kv, e2 \in m2.kv : e1[1] = e2[1] => JSONEqual(e1[2], e2[2])

\* C11 (as stated): Save(T) followed by RetrieveByID(T.owner, T.id) returns a
\* thing equal to T in id, owner, name, key and metadata, whatever T's
\* metadata is: nil, empty or not.
C11_RoundTrip ==
    [][RetrievesSaved => last'.err = Nil /\ last'.out = SavedThing]_vars

\* C11 (amended): the thing returned equals T in id, owner, name and key; its
\* metadata is never nil, has T's keys with JSON-equal values, and holds
\* every number as a float64.
C11_RoundTripJSON ==
    [][RetrievesSaved =>
         /\ last'.err = Nil
         /\ last'.out.id = SavedThing.id /\ last'.out.owner = SavedThing.owner
         /\ last'.out.name = SavedThing.name /\ last'.out.key = SavedThing.key
         /\ ~last'.out.metadata.null
         /\ SameEntries(last'.out.metadata, SavedThing.metadata)
         /\ \A e \in last'.out.metadata.kv : e[2].t \in {"string", "float64"}]_vars

\* A thing saved with a number in its metadata has been retrieved.
C11_Witness ==
    /\ last.op = "ThingRetrieveByID" /\ last.err = Nil
    /\ last.out.metadata.kv = {<<"a", GoFloat(1)>>, <<"b", GoString("x")>>}
    /\ last.out.name = "n2"

\* C12: Remove of a thing or of a channel never returns an error; it deletes
\* the row matching (id, owner) if there is one, with nothing else than that
\* row's connections, and leaves the store unchanged otherwise; the same
\* Remove called again changes nothing and returns no error either.
C12_RemoveIdempotent ==
    [][/\ last'.op = "ThingRemove" =>
            /\ last'.err = Nil
            /\ things' = {r \in things :
                            ~(r.id = last'.thing /\ r.owner = last'.owner)}
            /\ channels' = channels
            /\ connections' = {r \in connections :
                                 r.thing_id = last'.thing => things' = things}
            /\ last'.again => db' = db
       /\ last'.op = "ChannelRemove" =>
            /\ last'.err = Nil
            /\ channels' = {r \in channels :
                              ~(r.id = last'.chan /\ r.owner = last'.owner)}
            /\ things' = things
            /\ connections' = {r \in connections :
                                 r.channel_id = last'.chan => channels' = channels}
            /\ last'.again => db' = db]_vars

\* A Remove called a second time, while things of the other owner exist.
C12_Witness ==
    /\ last.op = "ThingRemove" /\ last.again
    /\ ValidUUID(last.thing) /\ ~ThingExists(last.thing)
    /\ \E r \in things : r.owner # last.owner

\* C13 (as stated): RetrieveByChannel and RetrieveByThing given a string that
\* is not a UUID return an empty page and no error, without a statement.
C13_BadIDEmptyPage ==
    (Listed("ThingRetrieveByChannel") \/ Listed("ChannelRetrieveByThing"))
    /\ ~ValidUUID(call["p1"].id)
    => /\ ret["p1"].err = Nil
       /\ ret["p1"].out = EmptyPage
       /\ ret["p1"].code = NoStmt

\* C13 (amended): they return the empty page together with the NotFound
\* error, without a statement, and so never an error of the engine.
C13_BadIDNotFound ==
    (Listed("ThingRetrieveByChannel") \/ Listed("ChannelRetrieveByThing"))
    /\ ~ValidUUID(call["p1"].id)
    => /\ ret["p1"].err = ErrNotFound
       /\ ret["p1"].out = EmptyPage
       /\ ret["p1"].code = NoStmt

\* RetrieveByChannel has returned for a string that is not a UUID, asked of
\* a store that has connections.
C13_Witness ==
    /\ Listed("ThingRetrieveByChannel") /\ ~ValidUUID(call["p1"].id)
    /\ connections # {}

\* The number of messages of the channel that match the filters of the
\* ReadAll that has returned.
MatchingOfRead == Cardinality(MessageRows(call["p1"].chan, call["p1"].query))

\* C14: ReadAll(channel, offset, limit, filters) over N matching messages of
\* the channel returns min(limit, max(N - offset, 0)) messages, each a
\* matching message of that channel, with Total = N and no error; with N = 0
\* the list is empty and Total is 0.
C14_MessagePaging ==
    Listed("ReadAll") =>
       /\ ret["p1"].err = Nil
       /\ ret["p1"].out.total = MatchingOfRead
       /\ Len(ret["p1"].out.items) =
             IF MatchingOfRead - call["p1"].offset <= 0 THEN 0
             ELSE IF call["p1"].limit < MatchingOfRead - call["p1"].offset
                  THEN call["p1"].limit
             ELSE MatchingOfRead - call["p1"].offset
       /\ \A i \in 1 .. Len(ret["p1"].out.items) :
             /\ ret["p1"].out.items[i].channel = call["p1"].chan
             /\ MatchesFilters(ret["p1"].out.items[i], call["p1"].query)
             /\ \E r \in messages : r.msg = ret["p1"].out.items[i]

\* A last page shorter than the limit, of a channel with messages that the
\* filter leaves out.
C14_Witness ==
    /\ Listed("ReadAll") /\ call["p1"].offset = 1 /\ call["p1"].limit = 2
    /\ Len(ret["p1"].out.items) = 1 /\ ret["p1"].out.total = 2
    /\ Cardinality(messages) = 3

\* The rows that match the whole filter of the RetrieveAll that has
\* returned: owner, name condition and metadata condition.
Matching(table) ==
    {r \in table :
       /\ r.owner = call["p1"].owner
       /\ NameMatches(r, getNameQuery(call["p1"].name))
       /\ getMetadataQuery(call["p1"].metadata).mq =>
             Contains(IF table = things THEN JSONDoc(r.metadata) ELSE r.metadata,
                      getMetadataQuery(call["p1"].metadata).mb)}

ListedOf(table) ==
    IF table = things /\ things # {} THEN Listed("ThingRetrieveAll")
    ELSE table = channels /\ Listed("ChannelRetrieveAll")

\* C15: the Total of a RetrieveAll page, of things and of channels, is the
\* number of rows matching the whole filter (owner, name, metadata), whatever
\* offset and limit are; with offset 0 and a limit of at least Total the page
\* holds Total items.
C15_TotalCountsFilter ==
    \A table \in {things, channels} :
       ListedOf(table) =>
          /\ ret["p1"].out.total = Cardinality(Matching(table))
          /\ call["p1"].offset = 0 /\ call["p1"].limit >= ret["p1"].out.total
                => Len(ret["p1"].out.items) = ret["p1"].out.total

\* The stored document holds every key of the filter with an equal value.
HoldsAll(doc, filter) ==
    /\ ~doc.null
    /\ \A e \in filter.kv : \E d \in doc.kv : d[1] = e[1] /\ d[2] = JSONOf(e[2])

\* The identifiers of the items of the page that has been returned.
ItemIDs == {ret["p1"].out.items[i].id : i \in 1 .. Len(ret["p1"].out.items)}

\* A RetrieveAll from the start, without a name filter, with room for all
\* the owner's entities.
ListedWhole(op) ==
    /\ Listed(op) /\ call["p1"].offset = 0 /\ call["p1"].name = <<>>
    /\ call["p1"].limit >= Cardinality(things) + Cardinality(channels)

\* C16: RetrieveAll(owner, 0, limit, "", F), limit being large enough,
\* returns exactly the owner's things (channels) whose stored metadata holds
\* every key of F with an equal value; with F empty or nil, all of them.
C16_MetadataSubset ==
    /\ ListedWhole("ThingRetrieveAll") =>
          ItemIDs = {r.id : r \in {x \in things :
                        /\ x.owner = call["p1"].owner
                        /\ HoldsAll(JSONDoc(x.metadata), call["p1"].metadata)}}
    /\ ListedWhole("ChannelRetrieveAll") =>
          ItemIDs = {r.id : r \in {x \in channels :
                        /\ x.owner = call["p1"].owner
                        /\ call["p1"].metadata.kv # {} =>
                              HoldsAll(x.metadata, call["p1"].metadata)}}

\* A filter on one key has kept a thing that stores two keys and has left
\* out a thing of the same owner.
C16_Witness ==
    /\ ListedWhole("ThingRetrieveAll")
    /\ call["p1"].metadata = MetaOf({<<"a", GoInt(1)>>})
    /\ Len(ret["p1"].out.items) = 1
    /\ Cardinality({r \in things : r.owner = call["p1"].owner}) = 2

\* n is a substring of s.
IsSubstring(n, s) ==
    \E i \in 1 .. Len(s) - Len(n) + 1 : SubSeq(s, i, i + Len(n) - 1) = n

\* The rows of a table that the owner and the name filter of the call keep,
\* by the rule of the lower-cased substring.
NameKept(table) ==
    {r \in table : /\ r.owner = call["p1"].owner
                   /\ IsSubstring(ToLower(call["p1"].name), ToLower(r.name))}

\* The identifiers of the page's items, in the page's order.
ItemIDSeq == [i \in 1 .. Len(ret["p1"].out.items) |-> ret["p1"].out.items[i].id]

\* The identifiers of the window of the rows in ascending order of id.
WindowIDs(rows) ==
    LET w == LimitOffset(OrderById(rows), call["p1"].limit, call["p1"].offset)
    IN [i \in 1 .. Len(w) |-> w[i].id]

\* A RetrieveAll without a metadata filter.
ListedByName(op) == Listed(op) /\ call["p1"].metadata.kv = {}

\* C17: RetrieveAll with the name filter n returns, within offset and limit
\* and in ascending order of id, exactly the owner's things (channels) whose
\* lower-cased name has the lower-cased n as a substring; the empty filter
\* keeps every name.
C17_NameSubstring ==
    /\ ListedByName("ThingRetrieveAll") => ItemIDSeq = WindowIDs(NameKept(things))
    /\ ListedByName("ChannelRetrieveAll") => ItemIDSeq = WindowIDs(NameKept(channels))

\* The step in which the statement of p's call runs and the call returns.
Executes(p, ops) ==
    pc[p] = "called" /\ pc'[p] = "returned" /\ call[p].op \in ops

C19_HasThingAtomic ==
    \A p \in Procs :
       pc[p] = "returned" /\ call[p].op = "HasThing" /\ ret[p].err = Nil
       => ret[p].out \in seen[p]

\* The things other than the one the call that last' records was aimed at
\* are the same rows before and after, and that one keeps id and owner.
OthersKept ==
    /\ {r \in things' : r.id # last'.thing} = {r \in things : r.id # last'.thing}
    /\ {<<r.id, r.owner>> : r \in things'} = {<<r.id, r.owner>> : r \in things}
    /\ Cardinality(things') = Cardinality(things)
    /\ channels' = channels /\ connections' = connections

\* C20: Update and UpdateKey for an (owner, id) that matches no thing return
\* NotFound and leave the store as it was; a successful Update changes the
\* name and the metadata of the matching thing and nothing else, a
\* successful UpdateKey its key and nothing else.  Stated for identifiers
\* and for keys the key column admits.
C20_UpdateFrame ==
    [][/\ last'.op \in {"ThingUpdate", "UpdateKey"}
          /\ ValidUUID(last'.thing) /\ KeyFits(last'.key)
          /\ ThingRows(last'.owner, last'.thing) = {}
          => last'.err = ErrNotFound /\ db' = db
       /\ last'.op = "ThingUpdate" /\ last'.err = Nil =>
            /\ OthersKept
            /\ \A r \in things, n \in things' :
                  r.id = last'.thing /\ n.id = last'.thing
                  => /\ n.key = r.key /\ n.name = last'.arg.name
                     /\ n.metadata = Marshal(last'.arg.metadata.kv)
       /\ last'.op = "UpdateKey" /\ last'.err = Nil =>
            /\ OthersKept
            /\ \A r \in things, n \in things' :
                  r.id = last'.thing /\ n.id = last'.thing
                  => /\ n.name = r.name /\ n.metadata = r.metadata
                     /\ n.key = last'.key]_vars

\* An Update has renamed one of two connected things and the other keeps
\* its name.
C20_Witness ==
    /\ last.op = "ThingUpdate" /\ last.err = Nil /\ last.arg.name = "n2"
    /\ \E r \in things : r.id = last.thing /\ r.name = "n2"
    /\ \E r \in things : r.id # last.thing /\ r.name = "n1"
    /\ Cardinality(connections) = 2

\* C21: when the engine rejects UpdateKey's statement for an invalid text
\* representation or for a string too long for the column, UpdateKey
\* returns MalformedEntity, as Update does, and no key changes.
C21_UpdateKeyMalformed ==
    [][(last'.op = "UpdateKey" /\ last'.code \in {errInvalid, errTruncation})
       => last'.err = ErrMalformedEntity /\ things' = things]_vars

\* The rows of a table that an owner's call has to leave alone: those whose
\* owner is another.
OfOthers(table, owner) == {r \in table : r.owner # owner}
ConnsOfOthers(table, owner) == {r \in table : r.channel_owner # owner}

\* C22: an Update, UpdateKey, Remove, Connect or Disconnect made with owner O
\* leaves as they were the things and the channels whose owner is not O and
\* the connection rows whose recorded owner is not O.
C22_OwnerIsolation ==
    [][last'.op \in {"ThingUpdate", "UpdateKey", "ThingRemove", "ChannelUpdate",
                     "ChannelRemove", "Connect", "Disconnect"}
       => /\ OfOthers(things', last'.owner) = OfOthers(things, last'.owner)
          /\ OfOthers(channels', last'.owner) = OfOthers(channels, last'.owner)
          /\ ConnsOfOthers(connections', last'.owner) =
                ConnsOfOthers(connections, last'.owner)]_vars
====
